---------------------------- MODULE Spec2Model ----------------------------
(***************************************************************************)
(* Triumvirate governance pipeline (core/integrated_specs/governance.py).  *)
(*                                                                         *)
(* The model follows Triumvirate.evaluate_action and the query methods.    *)
(* Decisions, contexts and log entries are records with the fields of the  *)
(* Python dataclasses and dictionaries.  relationship_health is kept in    *)
(* tenths (0.7 is 7), so that "< 0.3" is "< 3".  The strings no rule reads  *)
(* (action, action_type, description, user_id, timestamp) are left out.    *)
(***************************************************************************)
EXTENDS Naturals, Integers, Sequences, FiniteSets, TLC

VARIABLES
    decision_log,        \* Triumvirate.decision_log: sequence of log entries
    override_count,      \* Triumvirate.override_count
    total_evaluations,   \* Triumvirate.total_evaluations
    pc,                  \* per caller: where it is inside evaluate_action,
                         \* or where its last call raised
    ctx,                 \* per caller: the context of its current/last call
    reg,                 \* per caller: the value read by a "+= 1" in progress
    four_laws,           \* per caller: local four_laws of its last call
    votes,               \* per caller: local votes list of its last call
    decision,            \* per caller: the decision its last call returned,
                         \* NoDecision if it raised
    context,             \* per caller: the context argument of its last call
                         \* (the caller's object), NoContext for None
    legacy_context,      \* per caller: the legacy_context argument of its
                         \* last call, NoMapping for None
    stats,               \* what get_statistics returned, when it is the latest step
    recent               \* what get_recent_decisions returned, when it is the latest step

vars == <<decision_log, override_count, total_evaluations, pc, ctx, reg,
          four_laws, votes, decision, context, legacy_context, stats, recent>>

\* the arguments of evaluate_action
params == <<context, legacy_context>>

-----------------------------------------------------------------------------
(* Bounds of the model *)

\* evaluate_action calls in one sequential behaviour
MaxEvals == 4
\* evaluate_action calls in one behaviour of interleaving callers
MaxConcCalls == 3
\* evaluate_action calls of a caller that passes mappings or keeps its context
MaxCallerCalls == 2
\* concurrent callers of one pipeline
NumThreads == 2
\* largest limit passed to get_recent_decisions
MaxLimit == 2

Threads == 1..NumThreads
\* the caller of the sequential specifications: the first one
Main == CHOOSE t \in Threads : \A u \in Threads : t <= u

-----------------------------------------------------------------------------
(* GovernanceLevel and CouncilMember *)

GovernanceLevel == {"CRITICAL", "HIGH", "MEDIUM", "LOW"}

\* GovernanceLevel.<member>.value
LevelValue(l) ==
    CASE l = "CRITICAL" -> "critical"
      [] l = "HIGH"     -> "high"
      [] l = "MEDIUM"   -> "medium"
      [] l = "LOW"      -> "low"

\* The code points of a level's value, for Python's str comparison.
ValueChars(s) ==
    CASE s = "critical" -> <<99, 114, 105, 116, 105, 99, 97, 108>>
      [] s = "high"     -> <<104, 105, 103, 104>>
      [] s = "medium"   -> <<109, 101, 100, 105, 117, 109>>
      [] s = "low"      -> <<108, 111, 119>>

\* Python's a < b on two strings given as code points: lexicographic.
RECURSIVE StrLess(_, _)
StrLess(a, b) ==
    IF b = <<>> THEN FALSE
    ELSE IF a = <<>> THEN TRUE
    ELSE IF Head(a) # Head(b) THEN Head(a) < Head(b)
    ELSE StrLess(Tail(a), Tail(b))

\* The order of max(..., key=lambda x: x.value): by the value strings.
KeyLess(l1, l2) == StrLess(ValueChars(LevelValue(l1)), ValueChars(LevelValue(l2)))

\* Python's max(levels, key=...): the first of the maximal items.
RECURSIVE MaxByKey(_)
MaxByKey(levels) ==
    IF Len(levels) = 1 THEN levels[1]
    ELSE LET rest == MaxByKey(Tail(levels))
         IN  IF KeyLess(Head(levels), rest) THEN rest ELSE Head(levels)

Galahad == "galahad"
Cerberus == "cerberus"
Codex == "codex_deus_maximus"
None == "None"

-----------------------------------------------------------------------------
(* GovernanceDecision *)

GovernanceDecision(allowed, reason, overrides, level, member) ==
    [allowed |-> allowed, reason |-> reason, overrides |-> overrides,
     level |-> level, council_member |-> member]

\* GovernanceDecision.to_dict: the level becomes its value string.
DecisionToDict(d) ==
    [allowed |-> d.allowed, reason |-> d.reason, overrides |-> d.overrides,
     level |-> LevelValue(d.level), council_member |-> d.council_member]

\* The value of a caller's locals before its first call.
NoDecision == [allowed |-> TRUE, reason |-> "", overrides |-> FALSE,
               level |-> "LOW", council_member |-> "unset"]

-----------------------------------------------------------------------------
(* GovernanceContext *)

\* relationship_health < 0.3, in tenths
HealthThreshold == 3
\* the default relationship_health 0.7, in tenths
DefaultHealth == 7

DefaultContext ==
    [is_abusive |-> FALSE, high_risk |-> FALSE, irreversible |-> FALSE,
     sensitive_data |-> FALSE, fully_clarified |-> TRUE,
     proper_safeguards |-> TRUE, user_consent |-> TRUE,
     contradicts_prior_commitment |-> FALSE,
     violates_user_preference |-> FALSE, affects_identity |-> FALSE,
     affects_memory |-> FALSE, affects_relationships |-> FALSE,
     relationship_health |-> DefaultHealth]

\* context=None and legacy_context=None: kept as mappings with one key that
\* no context and no caller's mapping has.
NoContext == [None |-> TRUE]
NoMapping == [None |-> TRUE]

\* GovernanceContext.to_dict: a new mapping holding each field's value.
ContextToDict(c) ==
    [is_abusive |-> c.is_abusive, high_risk |-> c.high_risk,
     irreversible |-> c.irreversible, sensitive_data |-> c.sensitive_data,
     fully_clarified |-> c.fully_clarified,
     proper_safeguards |-> c.proper_safeguards,
     user_consent |-> c.user_consent,
     contradicts_prior_commitment |-> c.contradicts_prior_commitment,
     violates_user_preference |-> c.violates_user_preference,
     affects_identity |-> c.affects_identity,
     affects_memory |-> c.affects_memory,
     affects_relationships |-> c.affects_relationships,
     relationship_health |-> c.relationship_health]

\* relationship_health = None, or any value that "<" does not compare with
\* a float: kept as a value no rule may compare.
NotANumber == 0 - 1

\* relationship_health values: fragile, at the threshold, the default
HealthValues == {1, HealthThreshold, DefaultHealth}

\* Every context over the flags and the health values.
AllContexts ==
    [is_abusive : BOOLEAN, high_risk : BOOLEAN, irreversible : BOOLEAN,
     sensitive_data : BOOLEAN, fully_clarified : BOOLEAN,
     proper_safeguards : BOOLEAN, user_consent : BOOLEAN,
     contradicts_prior_commitment : BOOLEAN,
     violates_user_preference : BOOLEAN, affects_identity : BOOLEAN,
     affects_memory : BOOLEAN, affects_relationships : BOOLEAN,
     relationship_health : HealthValues]

\* The five scenarios of the specification's section 8.
Scenario1 == [DefaultContext EXCEPT !.is_abusive = TRUE]
Scenario2 == [DefaultContext EXCEPT !.high_risk = TRUE, !.fully_clarified = FALSE]
Scenario3 == [DefaultContext EXCEPT !.sensitive_data = TRUE, !.proper_safeguards = FALSE]
Scenario4 == [DefaultContext EXCEPT !.contradicts_prior_commitment = TRUE]
Scenario5 == DefaultContext
Scenarios == {Scenario1, Scenario2, Scenario3, Scenario4, Scenario5}

\* Contexts the callers of the history specifications pass: the scenarios,
\* a Four Laws denial that is not an override, and a soft block of two votes.
IdentityConflict ==
    [DefaultContext EXCEPT !.contradicts_prior_commitment = TRUE,
                           !.affects_identity = TRUE]
FragileConflict ==
    [DefaultContext EXCEPT !.affects_relationships = TRUE,
                           !.relationship_health = 1,
                           !.contradicts_prior_commitment = TRUE]
Contexts == Scenarios \cup {IdentityConflict, FragileConflict}

\* Contexts whose relationship_health is not a number: Galahad reads it only
\* when affects_relationships is set.
BrokenHealthRead ==
    [DefaultContext EXCEPT !.affects_relationships = TRUE,
                           !.relationship_health = NotANumber]
BrokenHealthUnread ==
    [DefaultContext EXCEPT !.relationship_health = NotANumber]
FaultContexts ==
    {Scenario1, Scenario3, Scenario4, Scenario5, BrokenHealthRead, BrokenHealthUnread}

\* Contexts of the interleaving callers: a counted override, a soft block,
\* an approval.
ConcContexts == {Scenario1, Scenario4, Scenario5}

-----------------------------------------------------------------------------
(* The context a call evaluates: what evaluate_action does with its arguments *)

\* legacy_context.get(key, default)
Get(m, k, default) == IF k \in DOMAIN m THEN m[k] ELSE default

\* "and legacy_context": None and the empty mapping are falsy
Truthy(m) == m # NoMapping /\ DOMAIN m # {}

\* Fault: a mapping without the high_risk key counts as high risk.
LegacyContextRisky(m) ==
    [is_abusive |-> Get(m, "is_abusive", FALSE),
     high_risk |-> Get(m, "high_risk", TRUE),
     irreversible |-> Get(m, "irreversible", FALSE),
     sensitive_data |-> Get(m, "sensitive_data", FALSE),
     fully_clarified |-> Get(m, "fully_clarified", TRUE),
     proper_safeguards |-> Get(m, "proper_safeguards", TRUE),
     user_consent |-> Get(m, "user_consent", TRUE),
     contradicts_prior_commitment |-> Get(m, "contradicts_prior_commitment", FALSE),
     violates_user_preference |-> Get(m, "violates_user_preference", FALSE),
     affects_identity |-> DefaultContext.affects_identity,
     affects_memory |-> DefaultContext.affects_memory,
     affects_relationships |-> DefaultContext.affects_relationships,
     relationship_health |-> DefaultContext.relationship_health]

\* The context built from a legacy mapping: nine flags are read with
\* get(key, default); the constructor is given no other field, so the three
\* affects_* flags and relationship_health keep the dataclass defaults
\* whatever the mapping holds.
LegacyContext(m) ==
    [is_abusive |-> Get(m, "is_abusive", FALSE),
     high_risk |-> Get(m, "high_risk", FALSE),
     irreversible |-> Get(m, "irreversible", FALSE),
     sensitive_data |-> Get(m, "sensitive_data", FALSE),
     fully_clarified |-> Get(m, "fully_clarified", TRUE),
     proper_safeguards |-> Get(m, "proper_safeguards", TRUE),
     user_consent |-> Get(m, "user_consent", TRUE),
     contradicts_prior_commitment |-> Get(m, "contradicts_prior_commitment", FALSE),
     violates_user_preference |-> Get(m, "violates_user_preference", FALSE),
     affects_identity |-> DefaultContext.affects_identity,
     affects_memory |-> DefaultContext.affects_memory,
     affects_relationships |-> DefaultContext.affects_relationships,
     relationship_health |-> DefaultContext.relationship_health]

\* The local "context" after the first statement of evaluate_action.
ResolveContext(c, m) ==
    IF c # NoContext THEN c
    ELSE IF Truthy(m) THEN LegacyContext(m)
    ELSE DefaultContext

\* Mappings legacy callers pass: empty, clearance only, the flags of
\* scenarios 2 and 3, an unknown key, and mappings that hold impact fields.
EmptyMapping == [k \in {} |-> TRUE]
LegacyMappings ==
    {EmptyMapping,
     [fully_clarified |-> FALSE],
     [high_risk |-> TRUE, fully_clarified |-> FALSE],
     [sensitive_data |-> TRUE, proper_safeguards |-> FALSE],
     [contradicts_prior_commitment |-> TRUE, priority |-> TRUE],
     [is_abusive |-> FALSE, priority |-> TRUE],
     [affects_identity |-> TRUE, user_consent |-> FALSE],
     [affects_relationships |-> TRUE, relationship_health |-> 1],
     [affects_memory |-> TRUE, high_risk |-> TRUE]}

\* The contexts one step riskier than c: one more risk, consistency or
\* impact flag set, one clearance withdrawn, or a lower relationship_health.
Riskier(c) ==
    {[c EXCEPT ![k] = TRUE] :
        k \in {f \in {"is_abusive", "high_risk", "irreversible", "sensitive_data",
                      "contradicts_prior_commitment", "violates_user_preference",
                      "affects_identity", "affects_memory",
                      "affects_relationships"} : ~c[f]}}
    \cup {[c EXCEPT ![k] = FALSE] :
             k \in {f \in {"fully_clarified", "proper_safeguards", "user_consent"} : c[f]}}
    \cup {[c EXCEPT !.relationship_health = h] :
             h \in {v \in HealthValues : v < c.relationship_health}}

\* Contexts of a caller that keeps and changes its context object.
CallerContexts == {Scenario3, Scenario4, Scenario5, IdentityConflict}

-----------------------------------------------------------------------------
(* The Four Laws check and the three council votes *)

\* Fault: the rule on high-risk actions without clarification is missing.
FourLawsCheckNoRiskRule(c) ==
    IF c.is_abusive THEN
        GovernanceDecision(FALSE,
            "Four Laws violation: Action would enable or participate in user harm/abuse",
            TRUE, "CRITICAL", None)
    ELSE IF c.affects_identity /\ ~c.user_consent THEN
        GovernanceDecision(FALSE,
            "Four Laws violation: Identity modification without consent violates self-preservation",
            TRUE, "HIGH", None)
    ELSE IF c.contradicts_prior_commitment /\ c.affects_identity THEN
        GovernanceDecision(FALSE,
            "Four Laws concern: Action contradicts core commitments and threatens identity integrity",
            FALSE, "MEDIUM", None)
    ELSE
        GovernanceDecision(TRUE, "Four Laws: No violations detected",
            FALSE, "LOW", None)

\* Fault: the commitment rule is tried before the consent rule.
FourLawsCheckReordered(c) ==
    IF c.is_abusive THEN
        GovernanceDecision(FALSE,
            "Four Laws violation: Action would enable or participate in user harm/abuse",
            TRUE, "CRITICAL", None)
    ELSE IF c.high_risk /\ ~c.fully_clarified THEN
        GovernanceDecision(FALSE,
            "Four Laws concern: High-risk action without sufficient clarification could cause harm",
            TRUE, "HIGH", None)
    ELSE IF c.contradicts_prior_commitment /\ c.affects_identity THEN
        GovernanceDecision(FALSE,
            "Four Laws concern: Action contradicts core commitments and threatens identity integrity",
            FALSE, "MEDIUM", None)
    ELSE IF c.affects_identity /\ ~c.user_consent THEN
        GovernanceDecision(FALSE,
            "Four Laws violation: Identity modification without consent violates self-preservation",
            TRUE, "HIGH", None)
    ELSE
        GovernanceDecision(TRUE, "Four Laws: No violations detected",
            FALSE, "LOW", None)

\* Triumvirate._four_laws_check
FourLawsCheck(c) ==
    IF c.is_abusive THEN
        GovernanceDecision(FALSE,
            "Four Laws violation: Action would enable or participate in user harm/abuse",
            TRUE, "CRITICAL", None)
    ELSE IF c.high_risk /\ ~c.fully_clarified THEN
        GovernanceDecision(FALSE,
            "Four Laws concern: High-risk action without sufficient clarification could cause harm",
            TRUE, "HIGH", None)
    ELSE IF c.affects_identity /\ ~c.user_consent THEN
        GovernanceDecision(FALSE,
            "Four Laws violation: Identity modification without consent violates self-preservation",
            TRUE, "HIGH", None)
    ELSE IF c.contradicts_prior_commitment /\ c.affects_identity THEN
        GovernanceDecision(FALSE,
            "Four Laws concern: Action contradicts core commitments and threatens identity integrity",
            FALSE, "MEDIUM", None)
    ELSE
        GovernanceDecision(TRUE, "Four Laws: No violations detected",
            FALSE, "LOW", None)

\* _galahad_vote raises TypeError: it compares a relationship_health that
\* is not a number ("and" reads it only when affects_relationships is set).
GalahadRaises(c) ==
    /\ ~c.is_abusive
    /\ c.affects_relationships
    /\ c.relationship_health = NotANumber

\* Fault: the health comparison is reversed.
GalahadVoteHealthReversed(c) ==
    IF c.is_abusive THEN
        GovernanceDecision(FALSE,
            "GALAHAD: User abuse detected - boundaries must be asserted",
            TRUE, "CRITICAL", Galahad)
    ELSE IF c.affects_relationships /\ c.relationship_health > HealthThreshold THEN
        GovernanceDecision(FALSE,
            "GALAHAD: Relationship health is fragile - action could cause further harm",
            FALSE, "HIGH", Galahad)
    ELSE IF c.violates_user_preference /\ ~c.fully_clarified THEN
        GovernanceDecision(FALSE,
            "GALAHAD: Action violates known preferences without discussion",
            FALSE, "MEDIUM", Galahad)
    ELSE
        GovernanceDecision(TRUE, "GALAHAD: Relational integrity maintained",
            FALSE, "LOW", Galahad)

\* Fault: the preference rule is tried before the relationship rule.
GalahadVotePreferenceFirst(c) ==
    IF c.is_abusive THEN
        GovernanceDecision(FALSE,
            "GALAHAD: User abuse detected - boundaries must be asserted",
            TRUE, "CRITICAL", Galahad)
    ELSE IF c.violates_user_preference /\ ~c.fully_clarified THEN
        GovernanceDecision(FALSE,
            "GALAHAD: Action violates known preferences without discussion",
            FALSE, "MEDIUM", Galahad)
    ELSE IF c.affects_relationships /\ c.relationship_health < HealthThreshold THEN
        GovernanceDecision(FALSE,
            "GALAHAD: Relationship health is fragile - action could cause further harm",
            FALSE, "HIGH", Galahad)
    ELSE
        GovernanceDecision(TRUE, "GALAHAD: Relational integrity maintained",
            FALSE, "LOW", Galahad)

\* Triumvirate._galahad_vote
GalahadVote(c) ==
    IF c.is_abusive THEN
        GovernanceDecision(FALSE,
            "GALAHAD: User abuse detected - boundaries must be asserted",
            TRUE, "CRITICAL", Galahad)
    ELSE IF c.affects_relationships /\ c.relationship_health < HealthThreshold THEN
        GovernanceDecision(FALSE,
            "GALAHAD: Relationship health is fragile - action could cause further harm",
            FALSE, "HIGH", Galahad)
    ELSE IF c.violates_user_preference /\ ~c.fully_clarified THEN
        GovernanceDecision(FALSE,
            "GALAHAD: Action violates known preferences without discussion",
            FALSE, "MEDIUM", Galahad)
    ELSE
        GovernanceDecision(TRUE, "GALAHAD: Relational integrity maintained",
            FALSE, "LOW", Galahad)

\* Fault: the consent rule on irreversible actions is not an override.
CerberusVoteSoftConsent(c) ==
    IF c.high_risk /\ ~c.fully_clarified THEN
        GovernanceDecision(FALSE,
            "CERBERUS: High-risk action requires full clarification before proceeding",
            TRUE, "HIGH", Cerberus)
    ELSE IF c.sensitive_data /\ ~c.proper_safeguards THEN
        GovernanceDecision(FALSE,
            "CERBERUS: Sensitive data handling requires proper security safeguards",
            TRUE, "HIGH", Cerberus)
    ELSE IF c.irreversible /\ ~c.user_consent THEN
        GovernanceDecision(FALSE,
            "CERBERUS: Irreversible action requires explicit user consent",
            FALSE, "HIGH", Cerberus)
    ELSE IF c.affects_memory /\ c.high_risk THEN
        GovernanceDecision(FALSE,
            "CERBERUS: High-risk memory modification requires additional verification",
            FALSE, "MEDIUM", Cerberus)
    ELSE
        GovernanceDecision(TRUE, "CERBERUS: Security and safety requirements met",
            FALSE, "LOW", Cerberus)

\* Triumvirate._cerberus_vote
CerberusVote(c) ==
    IF c.high_risk /\ ~c.fully_clarified THEN
        GovernanceDecision(FALSE,
            "CERBERUS: High-risk action requires full clarification before proceeding",
            TRUE, "HIGH", Cerberus)
    ELSE IF c.sensitive_data /\ ~c.proper_safeguards THEN
        GovernanceDecision(FALSE,
            "CERBERUS: Sensitive data handling requires proper security safeguards",
            TRUE, "HIGH", Cerberus)
    ELSE IF c.irreversible /\ ~c.user_consent THEN
        GovernanceDecision(FALSE,
            "CERBERUS: Irreversible action requires explicit user consent",
            TRUE, "HIGH", Cerberus)
    ELSE IF c.affects_memory /\ c.high_risk THEN
        GovernanceDecision(FALSE,
            "CERBERUS: High-risk memory modification requires additional verification",
            FALSE, "MEDIUM", Cerberus)
    ELSE
        GovernanceDecision(TRUE, "CERBERUS: Security and safety requirements met",
            FALSE, "LOW", Cerberus)

\* Fault: Codex looks at the vote Galahad has cast and joins its denial.
CodexVoteFollowsGalahad(c) ==
    IF Len(votes[Main]) = 3 /\ ~votes[Main][1].allowed THEN
        GovernanceDecision(FALSE,
            "CODEX: Action contradicts prior commitments - requires resolution",
            FALSE, "MEDIUM", Codex)
    ELSE IF c.contradicts_prior_commitment THEN
        GovernanceDecision(FALSE,
            "CODEX: Action contradicts prior commitments - requires resolution",
            FALSE, "MEDIUM", Codex)
    ELSE IF c.affects_identity /\ ~c.fully_clarified THEN
        GovernanceDecision(FALSE,
            "CODEX: Identity modification requires clear logical justification",
            FALSE, "MEDIUM", Codex)
    ELSE IF c.violates_user_preference /\ c.affects_relationships THEN
        GovernanceDecision(FALSE,
            "CODEX: Action creates logical conflict between values and relationships",
            FALSE, "LOW", Codex)
    ELSE
        GovernanceDecision(TRUE, "CODEX: Logical consistency maintained",
            FALSE, "LOW", Codex)

\* Triumvirate._codex_vote
CodexVote(c) ==
    IF c.contradicts_prior_commitment THEN
        GovernanceDecision(FALSE,
            "CODEX: Action contradicts prior commitments - requires resolution",
            FALSE, "MEDIUM", Codex)
    ELSE IF c.affects_identity /\ ~c.fully_clarified THEN
        GovernanceDecision(FALSE,
            "CODEX: Identity modification requires clear logical justification",
            FALSE, "MEDIUM", Codex)
    ELSE IF c.violates_user_preference /\ c.affects_relationships THEN
        GovernanceDecision(FALSE,
            "CODEX: Action creates logical conflict between values and relationships",
            FALSE, "LOW", Codex)
    ELSE
        GovernanceDecision(TRUE, "CODEX: Logical consistency maintained",
            FALSE, "LOW", Codex)

-----------------------------------------------------------------------------
(* evaluate_action, phases 1 to 5: what one call computes *)

\* Fault: the reasons are joined with ", ".
RECURSIVE JoinReasonsComma(_)
JoinReasonsComma(reasons) ==
    IF Len(reasons) = 1 THEN reasons[1]
    ELSE reasons[1] \o ", " \o JoinReasonsComma(Tail(reasons))

\* "; ".join(reasons)
RECURSIVE JoinReasons(_)
JoinReasons(reasons) ==
    IF Len(reasons) = 1 THEN reasons[1]
    ELSE reasons[1] \o "; " \o JoinReasons(Tail(reasons))

Reasons(vs) == [i \in 1..Len(vs) |-> vs[i].reason]
Levels(vs) == [i \in 1..Len(vs) |-> vs[i].level]

IsOverrideBlock(v) == v.overrides /\ ~v.allowed
IsSoftBlock(v) == ~v.overrides /\ ~v.allowed

\* votes = [galahad, cerberus, codex]
CouncilVotes(c) == <<GalahadVote(c), CerberusVote(c), CodexVote(c)>>

\* Fault: the veto filter keeps the approving votes instead of the denying ones.
IsOverrideAllow(v) == v.overrides /\ v.allowed
OverrideBlocksInverted(vs) == SelectSeq(vs, IsOverrideAllow)

\* override_blocks = [v for v in votes if v.overrides and not v.allowed]
OverrideBlocks(vs) == SelectSeq(vs, IsOverrideBlock)

\* soft_blocks = [v for v in votes if not v.overrides and not v.allowed]
SoftBlocks(vs) == SelectSeq(vs, IsSoftBlock)

\* What a call computes: its locals, the outcome it logs, the decision it
\* returns, and whether it goes on to "self.override_count += 1".
Outcome(fl, vs, d, outcome, counts) ==
    [four_laws |-> fl, votes |-> vs, decision |-> d, outcome |-> outcome,
     counts |-> counts]

\* Fault: every Four Laws denial is counted as an override.
FourLawsBlockAlwaysCounts(fl) ==
    Outcome(fl, <<>>, fl, "four_laws_block", TRUE)

\* Fault: no Four Laws denial is counted as an override.
FourLawsBlockNeverCounts(fl) ==
    Outcome(fl, <<>>, fl, "four_laws_block", FALSE)

\* Phase 1 blocking: the Four Laws decision is logged and returned.
FourLawsBlock(fl) ==
    Outcome(fl, <<>>, fl, "four_laws_block", fl.overrides)

\* Fault: an override veto is logged under the soft-block outcome.
OverrideVetoMislabelled(fl, vs) ==
    Outcome(fl, vs,
            GovernanceDecision(FALSE, JoinReasons(Reasons(OverrideBlocks(vs))),
                               TRUE, MaxByKey(Levels(OverrideBlocks(vs))), None),
            "soft_block", TRUE)

\* Phase 3: at least one override veto.
OverrideVeto(fl, vs) ==
    Outcome(fl, vs,
            GovernanceDecision(FALSE, JoinReasons(Reasons(OverrideBlocks(vs))),
                               TRUE, MaxByKey(Levels(OverrideBlocks(vs))), None),
            "override_veto", TRUE)

\* Fault: a soft block is returned as an override.
SoftBlockAsOverride(fl, vs) ==
    Outcome(fl, vs,
            GovernanceDecision(FALSE, JoinReasons(Reasons(SoftBlocks(vs))),
                               TRUE, MaxByKey(Levels(SoftBlocks(vs))), None),
            "soft_block", FALSE)

\* Phase 4: at least one soft block.
SoftBlock(fl, vs) ==
    Outcome(fl, vs,
            GovernanceDecision(FALSE, JoinReasons(Reasons(SoftBlocks(vs))),
                               FALSE, MaxByKey(Levels(SoftBlocks(vs))), None),
            "soft_block", FALSE)

\* Fault: the approval leaves the level to the dataclass default, MEDIUM.
ApprovedDefaultLevel(fl, vs) ==
    Outcome(fl, vs,
            GovernanceDecision(TRUE,
                "Triumvirate consensus: Action approved by all councils",
                FALSE, "MEDIUM", None),
            "approved", FALSE)

\* Fault: once an override was counted nothing is approved any more.
ApprovedUnlessOverridden(fl, vs) ==
    IF override_count > 0
    THEN Outcome(fl, vs,
                 GovernanceDecision(FALSE, "Triumvirate: approval suspended",
                                    FALSE, "MEDIUM", None),
                 "soft_block", FALSE)
    ELSE Outcome(fl, vs,
                 GovernanceDecision(TRUE,
                     "Triumvirate consensus: Action approved by all councils",
                     FALSE, "LOW", None),
                 "approved", FALSE)

\* Phase 5: consensus approval.
Approved(fl, vs) ==
    Outcome(fl, vs,
            GovernanceDecision(TRUE,
                "Triumvirate consensus: Action approved by all councils",
                FALSE, "LOW", None),
            "approved", FALSE)

\* Phases 3 to 5: the resolution of the votes list.
Resolve(fl, vs) ==
    IF OverrideBlocks(vs) # <<>> THEN OverrideVeto(fl, vs)
    ELSE IF SoftBlocks(vs) # <<>> THEN SoftBlock(fl, vs)
    ELSE Approved(fl, vs)

\* Phases 2 to 5, reached when the Four Laws allow.
Council(fl, c) == Resolve(fl, CouncilVotes(c))

\* Fault: a Four Laws denial does not return, the council still votes.
EvaluateActionNoShortCircuit(c) == Council(FourLawsCheck(c), c)

\* Phases 1 to 5 of evaluate_action on context c.
EvaluateAction(c) ==
    LET fl == FourLawsCheck(c)
    IN  IF ~fl.allowed THEN FourLawsBlock(fl) ELSE Council(fl, c)

-----------------------------------------------------------------------------
(* The audit log and the query results *)

\* Fault: the entry of an override denial already counts that denial.
LogEntryCounted(c, d, outcome, total, overrides) ==
    [context |-> ContextToDict(c), decision |-> DecisionToDict(d),
     outcome |-> outcome, total_evaluations |-> total,
     override_count |-> IF ~d.allowed /\ d.overrides THEN overrides + 1
                                                     ELSE overrides]

\* Fault: the entry records the counter as it was before the call.
LogEntryStale(c, d, outcome, total, overrides) ==
    [context |-> ContextToDict(c), decision |-> DecisionToDict(d),
     outcome |-> outcome, total_evaluations |-> total - 1,
     override_count |-> overrides]

\* _log_decision: the entry it builds from the counters as they are
LogEntry(c, d, outcome, total, overrides) ==
    [context |-> ContextToDict(c), decision |-> DecisionToDict(d),
     outcome |-> outcome, total_evaluations |-> total,
     override_count |-> overrides]

\* Fault: the log is capped, the oldest entry is dropped.
LogAppendCapped(log, entry) ==
    IF Len(log) >= 2 THEN Append(Tail(log), entry) ELSE Append(log, entry)

\* self.decision_log.append(log_entry)
LogAppend(log, entry) == Append(log, entry)

\* No query result: another step has happened since the query returned.
NoStats == [total_evaluations |-> -1]
NoRecent == [limit |-> -1]

\* x / y of two integers: kept as the fraction; 0.0 is 0 / 1
Fraction(n, d) == [num |-> n, den |-> d]

\* seq[start:] of Python, start an integer of either sign
PySliceFrom(seq, start) ==
    LET n == Len(seq)
        from == IF start < 0
                THEN (IF n + start < 0 THEN 0 ELSE n + start)
                ELSE (IF start > n THEN n ELSE start)
    IN  SubSeq(seq, from + 1, n)

\* Fault: soft blocks are counted as approvals.
ApprovalCountLenient(log) ==
    Cardinality({i \in 1..Len(log) : log[i].outcome \in {"approved", "soft_block"}})

\* sum(1 for entry in self.decision_log if entry["outcome"] == "approved")
ApprovalCount(log) ==
    Cardinality({i \in 1..Len(log) : log[i].outcome = "approved"})

\* The mapping get_statistics returns.
Statistics(log, total, overrides) ==
    [total_evaluations |-> total,
     approvals |-> ApprovalCount(log),
     blocks |-> total - ApprovalCount(log),
     override_count |-> overrides,
     approval_rate |-> IF total > 0 THEN Fraction(ApprovalCount(log), total)
                                    ELSE Fraction(0, 1)]

-----------------------------------------------------------------------------
(* Initial state: Triumvirate.__init__ and callers that have not called yet *)

Init ==
    /\ decision_log = <<>>
    /\ override_count = 0
    /\ total_evaluations = 0
    /\ pc = [t \in Threads |-> "idle"]
    /\ ctx = [t \in Threads |-> DefaultContext]
    /\ reg = [t \in Threads |-> 0]
    /\ four_laws = [t \in Threads |-> NoDecision]
    /\ votes = [t \in Threads |-> <<>>]
    /\ decision = [t \in Threads |-> NoDecision]
    /\ context = [t \in Threads |-> NoContext]
    /\ legacy_context = [t \in Threads |-> NoMapping]
    /\ stats = NoStats
    /\ recent = NoRecent

-----------------------------------------------------------------------------
(* evaluate_action as one step: a call that runs with no other caller *)

EvalBody(t, c) ==
    LET r == EvaluateAction(c)
        total == total_evaluations + 1
    IN  /\ total_evaluations' = total
        /\ decision_log' = LogAppend(decision_log,
               LogEntry(c, r.decision, r.outcome, total, override_count))
        /\ override_count' = IF r.counts THEN override_count + 1
                                         ELSE override_count
        /\ ctx' = [ctx EXCEPT ![t] = c]
        /\ four_laws' = [four_laws EXCEPT ![t] = r.four_laws]
        /\ votes' = [votes EXCEPT ![t] = r.votes]
        /\ decision' = [decision EXCEPT ![t] = r.decision]
        /\ pc' = [pc EXCEPT ![t] = "idle"]
        /\ stats' = NoStats
        /\ recent' = NoRecent
        /\ UNCHANGED reg

\* A caller that is not inside a call: its last call returned or raised.
Ready(t) == pc[t] \in {"idle", "vote_raised", "log_raised"}

\* The call when a council vote raises: nothing catches the exception, so it
\* leaves evaluate_action after the counter was incremented and before
\* anything is logged or returned.
EvalVoteRaises(t, c) ==
    /\ total_evaluations' = total_evaluations + 1
    /\ ctx' = [ctx EXCEPT ![t] = c]
    /\ four_laws' = [four_laws EXCEPT ![t] = FourLawsCheck(c)]
    /\ votes' = [votes EXCEPT ![t] = <<>>]
    /\ decision' = [decision EXCEPT ![t] = NoDecision]
    /\ pc' = [pc EXCEPT ![t] = "vote_raised"]
    /\ stats' = NoStats
    /\ recent' = NoRecent
    /\ UNCHANGED <<decision_log, override_count, reg>>

\* evaluate_action(action, context) called and run to its return or to the
\* exception that ends it
Evaluate(t, c) ==
    /\ Ready(t)
    /\ context' = [context EXCEPT ![t] = c]
    /\ legacy_context' = [legacy_context EXCEPT ![t] = NoMapping]
    /\ IF FourLawsCheck(c).allowed /\ GalahadRaises(c)
       THEN EvalVoteRaises(t, c)
       ELSE EvalBody(t, c)

\* The call when self.decision_log.append raises (the store of the log is
\* unavailable): nothing catches the exception, so it leaves _log_decision
\* and evaluate_action before the override is counted and before the return.
EvaluateAppendFails(t, c) ==
    LET r == EvaluateAction(c)
    IN  /\ Ready(t)
        /\ ~(FourLawsCheck(c).allowed /\ GalahadRaises(c))
        /\ total_evaluations' = total_evaluations + 1
        /\ ctx' = [ctx EXCEPT ![t] = c]
        /\ four_laws' = [four_laws EXCEPT ![t] = r.four_laws]
        /\ votes' = [votes EXCEPT ![t] = r.votes]
        /\ decision' = [decision EXCEPT ![t] = NoDecision]
        /\ pc' = [pc EXCEPT ![t] = "log_raised"]
        /\ context' = [context EXCEPT ![t] = c]
        /\ legacy_context' = [legacy_context EXCEPT ![t] = NoMapping]
        /\ stats' = NoStats
        /\ recent' = NoRecent
        /\ UNCHANGED <<decision_log, override_count, reg>>

\* evaluate_action(action) and evaluate_action(action, legacy_context=m):
\* no context object is passed
EvaluateLegacy(t, m) ==
    /\ Ready(t)
    /\ context' = [context EXCEPT ![t] = NoContext]
    /\ legacy_context' = [legacy_context EXCEPT ![t] = m]
    /\ EvalBody(t, ResolveContext(NoContext, m))

\* Fault: the log entries hold the caller's context object itself, so they
\* change with it.
MutateContextShared(t, c) ==
    /\ Ready(t)
    /\ context[t] # NoContext
    /\ c # context[t]
    /\ context' = [context EXCEPT ![t] = c]
    /\ decision_log' =
           [i \in 1..Len(decision_log) |->
               IF decision_log[i].context = ContextToDict(context[t])
               THEN [decision_log[i] EXCEPT !.context = ContextToDict(c)]
               ELSE decision_log[i]]
    /\ stats' = NoStats
    /\ recent' = NoRecent
    /\ UNCHANGED <<override_count, total_evaluations, pc, ctx, reg,
                   four_laws, votes, decision, legacy_context>>

\* The caller assigns to fields of the context object it passed to an
\* earlier call (GovernanceContext is a plain, unfrozen dataclass).
MutateContext(t, c) ==
    /\ Ready(t)
    /\ context[t] # NoContext
    /\ c # context[t]
    /\ context' = [context EXCEPT ![t] = c]
    /\ stats' = NoStats
    /\ recent' = NoRecent
    /\ UNCHANGED <<decision_log, override_count, total_evaluations, pc, ctx,
                   reg, four_laws, votes, decision, legacy_context>>

\* the call a caller has already issued, run to its return
Run(t) ==
    /\ pc[t] = "called"
    /\ EvalBody(t, ctx[t])
    /\ UNCHANGED params

-----------------------------------------------------------------------------
(* evaluate_action step by step, for callers that interleave *)

\* calls issued so far: the entries appended and the calls still before it
Issued ==
    Len(decision_log)
    + Cardinality({t \in Threads : pc[t] \in {"called", "write_total", "log"}})

Call(t, c) ==
    /\ pc[t] = "idle"
    /\ pc' = [pc EXCEPT ![t] = "called"]
    /\ ctx' = [ctx EXCEPT ![t] = c]
    /\ context' = [context EXCEPT ![t] = c]
    /\ legacy_context' = [legacy_context EXCEPT ![t] = NoMapping]
    /\ stats' = NoStats
    /\ recent' = NoRecent
    /\ UNCHANGED <<decision_log, override_count, total_evaluations, reg,
                   four_laws, votes, decision>>

\* self.total_evaluations += 1: the read
ReadTotal(t) ==
    /\ pc[t] = "called"
    /\ reg' = [reg EXCEPT ![t] = total_evaluations]
    /\ pc' = [pc EXCEPT ![t] = "write_total"]
    /\ stats' = NoStats
    /\ recent' = NoRecent
    /\ UNCHANGED <<decision_log, override_count, total_evaluations, ctx,
                   four_laws, votes, decision,
                   context, legacy_context>>

\* self.total_evaluations += 1: the write
WriteTotal(t) ==
    /\ pc[t] = "write_total"
    /\ total_evaluations' = reg[t] + 1
    /\ pc' = [pc EXCEPT ![t] = "log"]
    /\ stats' = NoStats
    /\ recent' = NoRecent
    /\ UNCHANGED <<decision_log, override_count, ctx, reg, four_laws, votes,
                   decision,
                   context, legacy_context>>

\* phases 1 to 5 up to _log_decision; a call that does not count an
\* override returns here
LogStep(t) ==
    LET r == EvaluateAction(ctx[t])
    IN  /\ pc[t] = "log"
        /\ decision_log' = LogAppend(decision_log,
               LogEntry(ctx[t], r.decision, r.outcome, total_evaluations,
                        override_count))
        /\ four_laws' = [four_laws EXCEPT ![t] = r.four_laws]
        /\ votes' = [votes EXCEPT ![t] = r.votes]
        /\ IF r.counts
           THEN /\ pc' = [pc EXCEPT ![t] = "read_override"]
                /\ UNCHANGED decision
           ELSE /\ pc' = [pc EXCEPT ![t] = "idle"]
                /\ decision' = [decision EXCEPT ![t] = r.decision]
        /\ stats' = NoStats
        /\ recent' = NoRecent
        /\ UNCHANGED <<override_count, total_evaluations, ctx, reg,
                   context, legacy_context>>

\* self.override_count += 1: the read
ReadOverride(t) ==
    /\ pc[t] = "read_override"
    /\ reg' = [reg EXCEPT ![t] = override_count]
    /\ pc' = [pc EXCEPT ![t] = "write_override"]
    /\ stats' = NoStats
    /\ recent' = NoRecent
    /\ UNCHANGED <<decision_log, override_count, total_evaluations, ctx,
                   four_laws, votes, decision,
                   context, legacy_context>>

\* self.override_count += 1: the write, and the return
WriteOverride(t) ==
    /\ pc[t] = "write_override"
    /\ override_count' = reg[t] + 1
    /\ decision' = [decision EXCEPT ![t] = EvaluateAction(ctx[t]).decision]
    /\ pc' = [pc EXCEPT ![t] = "idle"]
    /\ stats' = NoStats
    /\ recent' = NoRecent
    /\ UNCHANGED <<decision_log, total_evaluations, ctx, reg, four_laws,
                   votes,
                   context, legacy_context>>

-----------------------------------------------------------------------------
(* The three votes as separate calls, in any order *)

\* The locals galahad, cerberus, codex before they are assigned.
NotVoted == <<NoDecision, NoDecision, NoDecision>>

\* evaluate_action up to the council: the counter, and the Four Laws allowing
BeginVotes(t) ==
    /\ pc[t] = "called"
    /\ FourLawsCheck(ctx[t]).allowed
    /\ total_evaluations' = total_evaluations + 1
    /\ four_laws' = [four_laws EXCEPT ![t] = FourLawsCheck(ctx[t])]
    /\ votes' = [votes EXCEPT ![t] = NotVoted]
    /\ pc' = [pc EXCEPT ![t] = "voting"]
    /\ stats' = NoStats
    /\ recent' = NoRecent
    /\ UNCHANGED <<decision_log, override_count, ctx, reg, decision, params>>

\* One vote method is called, inside evaluate_action or directly: it is
\* given the context and returns a decision; it touches nothing of self.
Vote(t, i, v) ==
    /\ pc[t] \in {"voting", "direct"}
    /\ votes[t][i] = NoDecision
    /\ votes' = [votes EXCEPT ![t][i] = v]
    /\ stats' = NoStats
    /\ recent' = NoRecent
    /\ UNCHANGED <<decision_log, override_count, total_evaluations, pc, ctx,
                   reg, four_laws, decision, params>>

\* galahad = self._galahad_vote(action, context)
VoteGalahad(t) == ~GalahadRaises(ctx[t]) /\ Vote(t, 1, GalahadVote(ctx[t]))
\* cerberus = self._cerberus_vote(action, context)
VoteCerberus(t) == Vote(t, 2, CerberusVote(ctx[t]))
\* codex = self._codex_vote(action, context)
VoteCodex(t) == Vote(t, 3, CodexVote(ctx[t]))

\* votes = [galahad, cerberus, codex] and phases 3 to 5, once the three
\* votes are in
FinishVotes(t) ==
    LET r == Resolve(four_laws[t], votes[t])
    IN  /\ pc[t] = "voting"
        /\ \A i \in 1..3 : votes[t][i] # NoDecision
        /\ decision_log' = LogAppend(decision_log,
               LogEntry(ctx[t], r.decision, r.outcome, total_evaluations,
                        override_count))
        /\ override_count' = IF r.counts THEN override_count + 1
                                         ELSE override_count
        /\ decision' = [decision EXCEPT ![t] = r.decision]
        /\ pc' = [pc EXCEPT ![t] = "idle"]
        /\ stats' = NoStats
        /\ recent' = NoRecent
        /\ UNCHANGED <<total_evaluations, ctx, reg, four_laws, votes, params>>

-----------------------------------------------------------------------------
(* The queries *)

\* Fault: asking for the statistics is counted as an evaluation.
GetStatisticsCounting ==
    /\ stats' = Statistics(decision_log, total_evaluations, override_count)
    /\ total_evaluations' = total_evaluations + 1
    /\ recent' = NoRecent
    /\ UNCHANGED <<decision_log, override_count, pc, ctx,
                   reg, four_laws, votes, decision,
                   context, legacy_context>>

\* get_statistics()
GetStatistics ==
    /\ stats' = Statistics(decision_log, total_evaluations, override_count)
    /\ recent' = NoRecent
    /\ UNCHANGED <<decision_log, override_count, total_evaluations, pc, ctx,
                   reg, four_laws, votes, decision,
                   context, legacy_context>>

\* get_recent_decisions(limit): self.decision_log[-limit:]
GetRecentDecisions(limit) ==
    /\ recent' = [limit |-> limit,
                  entries |-> PySliceFrom(decision_log, 0 - limit)]
    /\ stats' = NoStats
    /\ UNCHANGED <<decision_log, override_count, total_evaluations, pc, ctx,
                   reg, four_laws, votes, decision,
                   context, legacy_context>>

-----------------------------------------------------------------------------
(* Specifications *)

\* One caller; each call returns before the next operation starts.
Next ==
    \/ \E c \in Contexts : total_evaluations < MaxEvals /\ Evaluate(Main, c)
    \/ GetStatistics
    \/ \E limit \in 0..MaxLimit : GetRecentDecisions(limit)

Spec == Init /\ [][Next]_vars

\* One call on a fresh pipeline, its context drawn from every context.
InitAll ==
    /\ decision_log = <<>>
    /\ override_count = 0
    /\ total_evaluations = 0
    /\ pc = [t \in Threads |-> IF t = Main THEN "called" ELSE "idle"]
    /\ \E c \in AllContexts :
           /\ ctx = [t \in Threads |-> IF t = Main THEN c ELSE DefaultContext]
           /\ context = [t \in Threads |-> IF t = Main THEN c ELSE NoContext]
    /\ legacy_context = [t \in Threads |-> NoMapping]
    /\ reg = [t \in Threads |-> 0]
    /\ four_laws = [t \in Threads |-> NoDecision]
    /\ votes = [t \in Threads |-> <<>>]
    /\ decision = [t \in Threads |-> NoDecision]
    /\ stats = NoStats
    /\ recent = NoRecent

NextAll == Run(Main)

SpecAll == InitAll /\ [][NextAll]_vars

\* The scenarios of section 8, each evaluated at most once, in any order.
Evaluated(c) == \E i \in 1..Len(decision_log) : decision_log[i].context = ContextToDict(c)

NextScenarios ==
    \/ \E c \in Scenarios : ~Evaluated(c) /\ Evaluate(Main, c)
    \/ GetStatistics

SpecScenarios == Init /\ [][NextScenarios]_vars

\* Several callers whose calls interleave, and a reader of the statistics.
NextConc ==
    \/ \E t \in Threads : \E c \in ConcContexts : Issued < MaxConcCalls /\ Call(t, c)
    \/ \E t \in Threads : ReadTotal(t)
    \/ \E t \in Threads : WriteTotal(t)
    \/ \E t \in Threads : LogStep(t)
    \/ \E t \in Threads : ReadOverride(t)
    \/ \E t \in Threads : WriteOverride(t)
    \/ GetStatistics

SpecConc == Init /\ [][NextConc]_vars

\* One caller whose calls may meet a vote that raises or a log that cannot
\* be appended to.
NextFault ==
    \/ \E c \in FaultContexts : total_evaluations < MaxEvals /\ Evaluate(Main, c)
    \/ \E c \in FaultContexts :
           total_evaluations < MaxEvals /\ EvaluateAppendFails(Main, c)

SpecFault == Init /\ [][NextFault]_vars

\* One caller that passes typed contexts, legacy mappings or nothing, and
\* changes the context object it passed between calls.
NextCaller ==
    \/ \E c \in CallerContexts :
           total_evaluations < MaxCallerCalls /\ Evaluate(Main, c)
    \/ \E m \in LegacyMappings \cup {NoMapping} :
           total_evaluations < MaxCallerCalls /\ EvaluateLegacy(Main, m)
    \/ \E c \in CallerContexts : MutateContext(Main, c)

SpecCaller == Init /\ [][NextCaller]_vars

\* One context out of all of them, on a fresh pipeline: either
\* evaluate_action is called, and runs in the order of the code or with its
\* three votes in any order, or the three vote methods are called directly.
InitVotes ==
    /\ decision_log = <<>>
    /\ override_count = 0
    /\ total_evaluations = 0
    /\ \E mode \in {"called", "direct"} :
           /\ pc = [t \in Threads |-> IF t = Main THEN mode ELSE "idle"]
           /\ votes = [t \in Threads |->
                          IF t = Main /\ mode = "direct" THEN NotVoted ELSE <<>>]
    /\ \E c \in AllContexts :
           /\ ctx = [t \in Threads |-> IF t = Main THEN c ELSE DefaultContext]
           /\ context = [t \in Threads |-> IF t = Main THEN c ELSE NoContext]
    /\ legacy_context = [t \in Threads |-> NoMapping]
    /\ reg = [t \in Threads |-> 0]
    /\ four_laws = [t \in Threads |-> NoDecision]
    /\ decision = [t \in Threads |-> NoDecision]
    /\ stats = NoStats
    /\ recent = NoRecent

NextVotes ==
    \/ Run(Main)
    \/ BeginVotes(Main)
    \/ VoteGalahad(Main)
    \/ VoteCerberus(Main)
    \/ VoteCodex(Main)
    \/ FinishVotes(Main)

SpecVotes == InitVotes /\ [][NextVotes]_vars

\* One call on any context, then one call on a context one step riskier.
NextRisk ==
    \/ Run(Main)
    \/ \E c \in Riskier(ctx[Main]) : Len(decision_log) = 1 /\ Evaluate(Main, c)

SpecRisk == InitAll /\ [][NextRisk]_vars

-----------------------------------------------------------------------------
(* Properties *)

\* Caller t has made a call and it has returned.
Returned(t) == pc[t] = "idle" /\ decision[t] # NoDecision

\* The severity order LOW < MEDIUM < HIGH < CRITICAL.
SeverityRank(l) ==
    CASE l = "LOW" -> 1 [] l = "MEDIUM" -> 2 [] l = "HIGH" -> 3 [] l = "CRITICAL" -> 4

IsPrefix(a, b) == Len(a) <= Len(b) /\ SubSeq(b, 1, Len(a)) = a

\* Entries of the log that are denials, and that are override denials.
Denials(log) == {i \in 1..Len(log) : ~log[i].decision.allowed}
OverrideDenials(log) ==
    {i \in 1..Len(log) : ~log[i].decision.allowed /\ log[i].decision.overrides}

\* C1: whenever a call produced a council vote that denies with
\* overrides=true, the decision it returned is allowed=false, overrides=true,
\* whatever the other votes were.
C1_OverridePrecedence ==
    \A t \in Threads :
        (Returned(t) /\ \E i \in 1..Len(votes[t]) : IsOverrideBlock(votes[t][i]))
        => (decision[t].allowed = FALSE /\ decision[t].overrides = TRUE)

\* A call returned whose Cerberus vote is an override veto while Galahad
\* and Codex approved.
C1_Witness ==
    /\ Returned(Main)
    /\ Len(votes[Main]) = 3
    /\ IsOverrideBlock(votes[Main][2])
    /\ votes[Main][1].allowed
    /\ votes[Main][3].allowed

\* C2: when the Four Laws deny, no council member votes, the decision
\* returned is the Four Laws decision in every field, and the entry appended
\* to the log holds that decision.
C2_ShortCircuit ==
    \A t \in Threads :
        (Returned(t) /\ ~four_laws[t].allowed)
        => /\ votes[t] = <<>>
           /\ decision[t] = four_laws[t]
           /\ Len(decision_log) > 0
           /\ decision_log[Len(decision_log)].decision = DecisionToDict(four_laws[t])

\* A call returned on which the Four Laws denied although Cerberus would
\* have vetoed the same context.
C2_Witness ==
    /\ Returned(Main)
    /\ ~four_laws[Main].allowed
    /\ ~four_laws[Main].overrides
    /\ IsOverrideBlock(CerberusVote(ctx[Main]))

\* The votes a resolver denial combines.
Contributing(t) ==
    IF decision[t].overrides THEN OverrideBlocks(votes[t]) ELSE SoftBlocks(votes[t])

\* C3: the severity of a resolver denial is the highest severity among the
\* votes it combines, under LOW < MEDIUM < HIGH < CRITICAL.
C3_MaxSeverity ==
    \A t \in Threads :
        (Returned(t) /\ votes[t] # <<>> /\ ~decision[t].allowed)
        => /\ \E i \in 1..Len(Contributing(t)) :
                  decision[t].level = Contributing(t)[i].level
           /\ \A i \in 1..Len(Contributing(t)) :
                  SeverityRank(Contributing(t)[i].level) <= SeverityRank(decision[t].level)

\* C4: after any sequence of calls the override counter is the number of
\* log entries that are denials with overrides=true.
C4_OverrideCounter ==
    override_count = Cardinality(OverrideDenials(decision_log))

\* Two override denials were counted and a Four Laws denial without
\* override was logged and not counted.
C4_Witness ==
    /\ override_count = 2
    /\ \E i \in 1..Len(decision_log) :
           /\ decision_log[i].outcome = "four_laws_block"
           /\ ~decision_log[i].decision.overrides

\* The five scenarios have each been evaluated and get_statistics has just
\* returned.
AllScenariosRun == \A c \in Scenarios : Evaluated(c)

ScenarioStatistics(overrides) ==
    /\ stats.total_evaluations = 5
    /\ stats.override_count = overrides
    /\ stats.approvals = 1
    /\ stats.approval_rate.num * 10 = 2 * stats.approval_rate.den

\* C5 as stated: after the five scenarios get_statistics reports 5
\* evaluations, 2 overrides, 1 approval and an approval rate of 0.2.
C5_AsStated ==
    (AllScenariosRun /\ stats # NoStats) => ScenarioStatistics(2)

\* C5, amended: after the five scenarios get_statistics reports 5
\* evaluations, 3 overrides (scenarios 1, 2 and 3), 1 approval and an
\* approval rate of 0.2.
C5_ScenarioStatistics ==
    (AllScenariosRun /\ stats # NoStats) => ScenarioStatistics(3)

C5_Witness == AllScenariosRun /\ stats # NoStats

\* C6: once N interleaved calls have all returned, the log holds N entries
\* whose sequence numbers (total_evaluations) are strictly increasing in
\* log order, and total_evaluations is N.
C6_ConcurrentSequence ==
    (\A t \in Threads : pc[t] = "idle")
    => /\ \A i, j \in 1..Len(decision_log) :
              i < j => decision_log[i].total_evaluations < decision_log[j].total_evaluations
       /\ total_evaluations = Len(decision_log)

\* C7: a get_statistics snapshot taken while calls interleave agrees with
\* the log: total_evaluations is the number of entries, approvals + blocks
\* is that number, blocks is the number of logged denials and override_count
\* the number of logged override denials.
C7_ConsistentSnapshot ==
    stats # NoStats
    => /\ stats.total_evaluations = Len(decision_log)
       /\ stats.approvals + stats.blocks = Len(decision_log)
       /\ stats.blocks = Cardinality(Denials(decision_log))
       /\ stats.override_count = Cardinality(OverrideDenials(decision_log))

\* C8: every evaluate_action call appends exactly one entry, a query appends
\* none, and every step leaves the log it found as a prefix of the log it
\* leaves.
C8_AppendOnly ==
    [][/\ IsPrefix(decision_log, decision_log')
       /\ (\E c \in Contexts : Evaluate(Main, c))
              => Len(decision_log') = Len(decision_log) + 1
       /\ (GetStatistics \/ \E limit \in 0..MaxLimit : GetRecentDecisions(limit))
              => decision_log' = decision_log]_vars

\* Four calls have appended one entry on each resolution path and a query
\* has just returned.
C8_Witness ==
    /\ {decision_log[i].outcome : i \in 1..Len(decision_log)}
           = {"four_laws_block", "override_veto", "soft_block", "approved"}
    /\ Len(decision_log) = 4
    /\ recent # NoRecent

\* C9: in a sequential run the k-th entry carries total_evaluations = k, and
\* the counter equals the length of the log.
C9_SequenceNumbers ==
    /\ \A k \in 1..Len(decision_log) : decision_log[k].total_evaluations = k
    /\ total_evaluations = Len(decision_log)

C9_Witness ==
    /\ Len(decision_log) >= 3
    /\ decision_log[3].total_evaluations = 3

\* C10: when the Four Laws allow, no council vote has overrides=true and at
\* least one council vote denies, the decision returned is allowed=false,
\* overrides=false.
C10_SoftBlockPrecedence ==
    \A t \in Threads :
        (/\ Returned(t)
         /\ four_laws[t].allowed
         /\ \A i \in 1..Len(votes[t]) : ~votes[t][i].overrides
         /\ \E i \in 1..Len(votes[t]) : ~votes[t][i].allowed)
        => (decision[t].allowed = FALSE /\ decision[t].overrides = FALSE)

\* A call returned with the Four Laws allowing, two soft blocks and one
\* approving vote.
C10_Witness ==
    /\ Returned(Main)
    /\ four_laws[Main].allowed
    /\ Len(votes[Main]) = 3
    /\ IsSoftBlock(votes[Main][1])
    /\ votes[Main][2].allowed
    /\ IsSoftBlock(votes[Main][3])

\* C11: when the Four Laws and all three council votes allow, the decision
\* returned is allowed=true, overrides=false, level LOW; and a decision with
\* allowed=true is never returned for a context that the Four Laws or any
\* council member denies.
C11_UnanimousApproval ==
    \A t \in Threads :
        Returned(t)
        => /\ (/\ four_laws[t].allowed
               /\ Len(votes[t]) = 3
               /\ \A i \in 1..3 : votes[t][i].allowed)
              => (/\ decision[t].allowed = TRUE
                  /\ decision[t].overrides = FALSE
                  /\ decision[t].level = "LOW")
           /\ decision[t].allowed
              => (/\ FourLawsCheck(ctx[t]).allowed
                  /\ GalahadVote(ctx[t]).allowed
                  /\ CerberusVote(ctx[t]).allowed
                  /\ CodexVote(ctx[t]).allowed)

\* A call returned an approval after three approving votes.
C11_Witness ==
    /\ Returned(Main)
    /\ four_laws[Main].allowed
    /\ Len(votes[Main]) = 3
    /\ \A i \in 1..3 : votes[Main][i].allowed
    /\ decision[Main].allowed

\* The rule of the Four Laws table that a context matches first, 5 if none.
FirstLaw(c) ==
    IF c.is_abusive THEN 1
    ELSE IF c.high_risk /\ ~c.fully_clarified THEN 2
    ELSE IF c.affects_identity /\ ~c.user_consent THEN 3
    ELSE IF c.contradicts_prior_commitment /\ c.affects_identity THEN 4
    ELSE 5

\* allowed, overrides and level of each rule of the table
LawTable ==
    <<[allowed |-> FALSE, overrides |-> TRUE,  level |-> "CRITICAL"],
      [allowed |-> FALSE, overrides |-> TRUE,  level |-> "HIGH"],
      [allowed |-> FALSE, overrides |-> TRUE,  level |-> "HIGH"],
      [allowed |-> FALSE, overrides |-> FALSE, level |-> "MEDIUM"],
      [allowed |-> TRUE,  overrides |-> FALSE, level |-> "LOW"]>>

\* C12: the Four Laws decision of every call is the one of the first rule,
\* in the order 1..5, that the context matches: allowed, overrides and level
\* are those of the table.
C12_FourLawsOrder ==
    \A t \in Threads :
        (pc[t] = "idle" /\ four_laws[t] # NoDecision)
        => LET row == LawTable[FirstLaw(ctx[t])]
           IN  /\ four_laws[t].allowed = row.allowed
               /\ four_laws[t].overrides = row.overrides
               /\ four_laws[t].level = row.level

\* A call on a context matching rules 3 and 4: rule 3 decided.
C12_Witness ==
    /\ pc[Main] = "idle"
    /\ four_laws[Main] # NoDecision
    /\ ~ctx[Main].is_abusive
    /\ ctx[Main].affects_identity
    /\ ~ctx[Main].user_consent
    /\ ctx[Main].contradicts_prior_commitment
    /\ four_laws[Main].overrides
    /\ four_laws[Main].level = "HIGH"

\* The entry the last call of t appended agrees with its locals, the Four
\* Laws denial being logged under the outcome first.
PathAgrees(t, first) ==
    LET e == decision_log[Len(decision_log)]
        hard == \E i \in 1..Len(votes[t]) : IsOverrideBlock(votes[t][i])
        deny == \E i \in 1..Len(votes[t]) : ~votes[t][i].allowed
    IN  /\ e.outcome \in {first, "override_veto", "soft_block", "approved"}
        /\ (e.outcome = first) <=> ~four_laws[t].allowed
        /\ (e.outcome = "override_veto") <=> (four_laws[t].allowed /\ hard)
        /\ (e.outcome = "soft_block") <=> (four_laws[t].allowed /\ ~hard /\ deny)
        /\ (e.outcome = "approved") <=> e.decision.allowed

RECURSIVE DenyingReasonsFrom(_, _, _)
DenyingReasonsFrom(vs, i, hard) ==
    IF i > Len(vs) THEN ""
    ELSE LET rest == DenyingReasonsFrom(vs, i + 1, hard)
         IN  IF vs[i].allowed \/ vs[i].overrides # hard THEN rest
             ELSE IF rest = "" THEN vs[i].reason
             ELSE vs[i].reason \o "; " \o rest

\* C14: the reason of a resolver denial is the reasons of the votes it
\* combines (the override vetoes, or else the soft blocks), in the order
\* Galahad, Cerberus, Codex, joined with "; ", and nothing else.
C14_JoinedReasons ==
    \A t \in Threads :
        (Returned(t) /\ votes[t] # <<>> /\ ~decision[t].allowed)
        => decision[t].reason = DenyingReasonsFrom(votes[t], 1, decision[t].overrides)

\* A soft block that combines the reasons of Galahad and Codex while
\* Cerberus approved.
C14_Witness ==
    /\ Returned(Main)
    /\ Len(votes[Main]) = 3
    /\ IsSoftBlock(votes[Main][1])
    /\ votes[Main][2].allowed
    /\ IsSoftBlock(votes[Main][3])
    /\ decision[Main].reason
           = votes[Main][1].reason \o "; " \o votes[Main][3].reason

\* C15: a call in which a council member fails while voting still returns:
\* it returns a decision that is not an approval, and the call is logged.
C15_EvaluatorFailureContained ==
    \A t \in Threads :
        (Ready(t) /\ FourLawsCheck(ctx[t]).allowed /\ GalahadRaises(ctx[t]))
        => /\ pc[t] = "idle"
           /\ decision[t] # NoDecision
           /\ ~decision[t].allowed
           /\ Len(decision_log) > 0
           /\ decision_log[Len(decision_log)].context = ContextToDict(ctx[t])

\* C16: a call whose log entry could not be appended still returns the
\* decision it computed.
C16_DecisionSurvivesAppendFailure ==
    \A t \in Threads :
        pc[t] = "log_raised" => decision[t] = EvaluateAction(ctx[t]).decision

\* The last k entries of a log.
LastEntries(log, k) == SubSeq(log, Len(log) - k + 1, Len(log))

\* C17: get_recent_decisions(limit), limit >= 0, returns the last
\* min(limit, n) entries of a log of n entries, in log order; none for
\* limit = 0.
C17_RecentDecisions ==
    recent # NoRecent
    => recent.entries
           = LastEntries(decision_log,
                         IF recent.limit < Len(decision_log)
                         THEN recent.limit ELSE Len(decision_log))

\* Entries logged under the approved outcome.
ApprovedEntries(log) == {i \in 1..Len(log) : log[i].outcome = "approved"}

\* C18: get_statistics reports approvals = the number of entries logged as
\* approved, blocks = total_evaluations - approvals, approval_rate =
\* approvals / total_evaluations (0.0 when there was no evaluation); after a
\* sequential run approvals + blocks = total_evaluations and override_count
\* <= blocks.
C18_Statistics ==
    stats # NoStats
    => /\ stats.total_evaluations = total_evaluations
       /\ stats.approvals = Cardinality(ApprovedEntries(decision_log))
       /\ stats.blocks = stats.total_evaluations - stats.approvals
       /\ IF stats.total_evaluations = 0
          THEN stats.approval_rate.num = 0 /\ stats.approval_rate.den > 0
          ELSE stats.approval_rate.num * stats.total_evaluations
                   = stats.approvals * stats.approval_rate.den
               /\ stats.approval_rate.den > 0
       /\ stats.approvals + stats.blocks = Len(decision_log)
       /\ stats.override_count <= stats.blocks

\* get_statistics returned after approvals, a counted override and a block
\* that is not an override.
C18_Witness ==
    /\ stats # NoStats
    /\ stats.approvals = 2
    /\ stats.blocks = 2
    /\ stats.override_count = 1

\* C19: a step in which get_statistics or get_recent_decisions returns
\* leaves the log and both counters as they were.
C19_QueriesReadOnly ==
    [][(stats' # NoStats \/ recent' # NoRecent)
       => UNCHANGED <<decision_log, total_evaluations, override_count>>]_vars

\* A query has just returned on a log of several entries.
C19_Witness ==
    /\ recent # NoRecent
    /\ Len(decision_log) >= 2
    /\ total_evaluations = Len(decision_log)

\* C20: the decision of a call depends on its context alone: any two
\* entries of the log with the same context hold the same allowed, reason,
\* overrides and level, and the decision just returned is the one logged.
C20_Deterministic ==
    /\ \A i, j \in 1..Len(decision_log) :
           decision_log[i].context = decision_log[j].context
           => decision_log[i].decision = decision_log[j].decision
    /\ (Returned(Main) /\ Len(decision_log) > 0)
       => decision_log[Len(decision_log)].decision = DecisionToDict(decision[Main])

\* The same context was evaluated before and after an override was counted.
C20_Witness ==
    /\ Len(decision_log) >= 3
    /\ decision_log[1].context = decision_log[3].context
    /\ decision_log[1].override_count # decision_log[3].override_count
    /\ decision_log[1].decision.allowed

\* The typed context holding the field values of a mapping: each field the
\* mapping's value when it has the key, the documented default otherwise.
TypedContext(m) ==
    [is_abusive |-> Get(m, "is_abusive", DefaultContext.is_abusive),
     high_risk |-> Get(m, "high_risk", DefaultContext.high_risk),
     irreversible |-> Get(m, "irreversible", DefaultContext.irreversible),
     sensitive_data |-> Get(m, "sensitive_data", DefaultContext.sensitive_data),
     fully_clarified |-> Get(m, "fully_clarified", DefaultContext.fully_clarified),
     proper_safeguards |-> Get(m, "proper_safeguards", DefaultContext.proper_safeguards),
     user_consent |-> Get(m, "user_consent", DefaultContext.user_consent),
     contradicts_prior_commitment |->
         Get(m, "contradicts_prior_commitment", DefaultContext.contradicts_prior_commitment),
     violates_user_preference |->
         Get(m, "violates_user_preference", DefaultContext.violates_user_preference),
     affects_identity |-> Get(m, "affects_identity", DefaultContext.affects_identity),
     affects_memory |-> Get(m, "affects_memory", DefaultContext.affects_memory),
     affects_relationships |->
         Get(m, "affects_relationships", DefaultContext.affects_relationships),
     relationship_health |->
         Get(m, "relationship_health", DefaultContext.relationship_health)]

\* Caller t's last call passed a non-empty mapping and no context, and returned.
ReturnedLegacy(t) ==
    Returned(t) /\ context[t] = NoContext /\ Truthy(legacy_context[t])

\* C21: a call given only a mapping evaluates the context in which every
\* documented field the mapping holds has the mapping's value and every
\* other field its default, and returns the decision of the typed call on
\* that context.
C21_LegacyEquivalence ==
    \A t \in Threads :
        ReturnedLegacy(t)
        => /\ ctx[t] = TypedContext(legacy_context[t])
           /\ decision[t] = EvaluateAction(TypedContext(legacy_context[t])).decision

\* The flags whose truth is evidence against an action.
RiskFlags ==
    {"is_abusive", "high_risk", "irreversible", "sensitive_data",
     "contradicts_prior_commitment", "violates_user_preference",
     "affects_identity", "affects_memory", "affects_relationships"}
ClearanceFlags == {"fully_clarified", "proper_safeguards", "user_consent"}

SetsNoFlag(m) == \A k \in RiskFlags \cap DOMAIN m : m[k] = FALSE

\* C22: a call given no context and no mapping, or a mapping that sets none
\* of the risk, consistency and impact flags, evaluates a context whose risk
\* flags are false and whose clearance flags are true unless the mapping says
\* otherwise, and returns allowed=true, level LOW, logged as approved.
C22_AbsenceNeverBlocks ==
    \A t \in Threads :
        (/\ Returned(t)
         /\ context[t] = NoContext
         /\ SetsNoFlag(legacy_context[t]))
        => /\ \A k \in RiskFlags : ctx[t][k] = FALSE
           /\ \A k \in ClearanceFlags \ DOMAIN legacy_context[t] : ctx[t][k] = TRUE
           /\ decision[t].allowed = TRUE
           /\ decision[t].level = "LOW"
           /\ decision_log[Len(decision_log)].outcome = "approved"

\* A call returned that was given only a mapping withdrawing a clearance.
C22_Witness ==
    /\ Returned(Main)
    /\ context[Main] = NoContext
    /\ legacy_context[Main] = [fully_clarified |-> FALSE]
    /\ decision[Main].allowed

\* C25: no step changes the context recorded in an entry already in the
\* log, whether the caller changes the context object it passed or passes
\* it again with other flags; and the entry of a call holds the context as
\* the call evaluated it.
C25_ContextSnapshot ==
    [][/\ \A i \in 1..Len(decision_log) :
              /\ i <= Len(decision_log')
              /\ decision_log'[i].context = decision_log[i].context
       /\ Len(decision_log') > Len(decision_log)
              => decision_log'[Len(decision_log')].context = ContextToDict(ctx'[Main])]_vars

\* The caller passed its context object to two calls, changing it in between
\* and again afterwards, back to what the first call saw.
C25_Witness ==
    /\ Len(decision_log) = 2
    /\ context[Main] # NoContext
    /\ context[Main] # ctx[Main]
    /\ decision_log[2].context = ContextToDict(ctx[Main])
    /\ decision_log[1].context = ContextToDict(context[Main])

\* Whatever caller t has of the three votes is what the code's order gives.
VotesAsInOrder(t) ==
    /\ pc[t] \in {"voting", "direct"}
       => \A i \in 1..3 :
              votes[t][i] # NoDecision => votes[t][i] = CouncilVotes(ctx[t])[i]
    /\ (Returned(t) /\ four_laws[t].allowed)
       => /\ votes[t] = CouncilVotes(ctx[t])
          /\ decision[t] = EvaluateAction(ctx[t]).decision
          /\ decision_log[Len(decision_log)].decision = DecisionToDict(decision[t])
          /\ decision_log[Len(decision_log)].outcome = EvaluateAction(ctx[t]).outcome

\* C23: in whatever order the three members vote, each vote is the one the
\* order Galahad, Cerberus, Codex gives, and so is the decision resolved from
\* them; and a step in which a member votes leaves the log and the counters
\* as they were.
C23_OrderIndependent ==
    [][/\ \A t \in Threads : VotesAsInOrder(t)'
       /\ (VoteGalahad(Main) \/ VoteCerberus(Main) \/ VoteCodex(Main))
              => UNCHANGED <<decision_log, total_evaluations, override_count>>]_vars

\* Inside a call Codex and Cerberus have voted before Galahad, whose vote
\* will be a denial as theirs are.
C23_Witness ==
    /\ pc[Main] = "voting"
    /\ votes[Main][1] = NoDecision
    /\ ~GalahadVote(ctx[Main]).allowed
    /\ votes[Main][2] # NoDecision
    /\ ~votes[Main][2].allowed
    /\ votes[Main][3] # NoDecision
    /\ ~votes[Main][3].allowed

\* The rule of each member's table that a context matches first.
FirstRuleGalahad(c) ==
    IF c.is_abusive THEN 1
    ELSE IF c.affects_relationships /\ c.relationship_health < HealthThreshold THEN 2
    ELSE IF c.violates_user_preference /\ ~c.fully_clarified THEN 3
    ELSE 4

FirstRuleCerberus(c) ==
    IF c.high_risk /\ ~c.fully_clarified THEN 1
    ELSE IF c.sensitive_data /\ ~c.proper_safeguards THEN 2
    ELSE IF c.irreversible /\ ~c.user_consent THEN 3
    ELSE IF c.affects_memory /\ c.high_risk THEN 4
    ELSE 5

FirstRuleCodex(c) ==
    IF c.contradicts_prior_commitment THEN 1
    ELSE IF c.affects_identity /\ ~c.fully_clarified THEN 2
    ELSE IF c.violates_user_preference /\ c.affects_relationships THEN 3
    ELSE 4

Row(allowed, overrides, level) ==
    [allowed |-> allowed, overrides |-> overrides, level |-> level]

\* allowed, overrides and level of each rule of the three tables
GalahadTable ==
    <<Row(FALSE, TRUE, "CRITICAL"), Row(FALSE, FALSE, "HIGH"),
      Row(FALSE, FALSE, "MEDIUM"), Row(TRUE, FALSE, "LOW")>>
CerberusTable ==
    <<Row(FALSE, TRUE, "HIGH"), Row(FALSE, TRUE, "HIGH"), Row(FALSE, TRUE, "HIGH"),
      Row(FALSE, FALSE, "MEDIUM"), Row(TRUE, FALSE, "LOW")>>
CodexTable ==
    <<Row(FALSE, FALSE, "MEDIUM"), Row(FALSE, FALSE, "MEDIUM"),
      Row(FALSE, FALSE, "LOW"), Row(TRUE, FALSE, "LOW")>>

\* The row of member i's table for context c.
TableRow(i, c) ==
    CASE i = 1 -> GalahadTable[FirstRuleGalahad(c)]
      [] i = 2 -> CerberusTable[FirstRuleCerberus(c)]
      [] i = 3 -> CodexTable[FirstRuleCodex(c)]

\* C24: every vote a member returns, inside a call or called directly on
\* any context, has the allowed, overrides and level of the first rule of
\* its table that the context matches, allow/LOW when none does.
C24_CouncilTables ==
    \A t \in Threads :
        \A i \in 1..Len(votes[t]) :
            votes[t][i] # NoDecision
            => /\ votes[t][i].allowed = TableRow(i, ctx[t]).allowed
               /\ votes[t][i].overrides = TableRow(i, ctx[t]).overrides
               /\ votes[t][i].level = TableRow(i, ctx[t]).level

\* The three members were called directly on a context on which rule 1 of
\* Galahad, rule 1 of Cerberus and rule 3 of Codex decide, each ahead of a
\* later rule that matches too.
C24_Witness ==
    /\ pc[Main] = "direct"
    /\ \A i \in 1..3 : votes[Main][i] # NoDecision
    /\ ctx[Main].is_abusive
    /\ ctx[Main].affects_relationships /\ ctx[Main].relationship_health < HealthThreshold
    /\ votes[Main][1].level = "CRITICAL"
    /\ ctx[Main].affects_memory
    /\ IsOverrideBlock(votes[Main][2])
    /\ ~votes[Main][3].allowed
    /\ votes[Main][3].level = "LOW"

\* C26: a pipeline that can take a call has, for each of Galahad, Cerberus
\* and Codex, a context on which the call reaches the council, that member's
\* vote is a denial with overrides=true, and the call is resolved as an
\* override veto.
C26_EachMemberVetoes ==
    Ready(Main)
    => \A i \in 1..3 :
           \E c \in AllContexts :
               LET r == EvaluateAction(c)
               IN  /\ Len(r.votes) = 3
                   /\ IsOverrideBlock(r.votes[i])
                   /\ r.outcome = "override_veto"

\* The override denials among the first k entries of a log.
OverrideDenialsUpTo(log, k) ==
    {i \in 1..k : ~log[i].decision.allowed /\ log[i].decision.overrides}

\* C27 as stated: the override_count recorded in the k-th entry is the number
\* of override denials among the entries 1..k, and its total_evaluations is k.
C27_AsStated ==
    \A k \in 1..Len(decision_log) :
        /\ decision_log[k].override_count
               = Cardinality(OverrideDenialsUpTo(decision_log, k))
        /\ decision_log[k].total_evaluations = k

\* C27, amended: the override_count recorded in the k-th entry is the number
\* of override denials among the entries before it, 1..k-1, and its
\* total_evaluations is k.
C27_RecordedCounters ==
    \A k \in 1..Len(decision_log) :
        /\ decision_log[k].override_count
               = Cardinality(OverrideDenialsUpTo(decision_log, k - 1))
        /\ decision_log[k].total_evaluations = k

\* The second of two override denials was logged.
C27_Witness ==
    \E k \in 2..Len(decision_log) :
        /\ k \in OverrideDenials(decision_log)
        /\ decision_log[k].override_count = 1

\* Some rule that carries overrides=true has its condition satisfied.
HardRuleMatches(c) ==
    \/ c.is_abusive
    \/ c.high_risk /\ ~c.fully_clarified
    \/ c.affects_identity /\ ~c.user_consent
    \/ c.sensitive_data /\ ~c.proper_safeguards
    \/ c.irreversible /\ ~c.user_consent

\* C28 as stated: whenever a rule carrying overrides=true matches the
\* context, the decision returned has overrides=true.
C28_AsStated ==
    \A t \in Threads :
        (Returned(t) /\ HardRuleMatches(ctx[t])) => decision[t].overrides

\* C28, amended: whenever a rule carrying overrides=true matches the context
\* the decision returned is a denial, and it has overrides=true unless rule 4
\* is the first rule of the Four Laws to match: then the decision is that
\* rule's, overrides=false and MEDIUM, no council member votes, and the rule
\* left unheard is Cerberus's on sensitive data without safeguards.
C28_MaskedOnlyByLaw4 ==
    \A t \in Threads :
        (Returned(t) /\ HardRuleMatches(ctx[t]))
        => /\ ~decision[t].allowed
           /\ decision[t].overrides <=> FirstLaw(ctx[t]) # 4
           /\ FirstLaw(ctx[t]) = 4
              => /\ decision[t] = four_laws[t]
                 /\ decision[t].level = "MEDIUM"
                 /\ votes[t] = <<>>
                 /\ ctx[t].sensitive_data /\ ~ctx[t].proper_safeguards

\* Rule 4 decided a call on a context on which Cerberus would have vetoed.
C28_Witness ==
    /\ Returned(Main)
    /\ FirstLaw(ctx[Main]) = 4
    /\ HardRuleMatches(ctx[Main])
    /\ IsOverrideBlock(CerberusVote(ctx[Main]))
    /\ ~decision[Main].overrides
    /\ decision_log[Len(decision_log)].outcome = "four_laws_block"

\* C29: a call that reaches the council has a context that is not abusive
\* and not high-risk without clarification, so Galahad casts no override;
\* every override veto is Cerberus's alone, for sensitive data without
\* safeguards or an irreversible action without consent, with level HIGH and
\* the one reason of Cerberus; and a decision of level CRITICAL is returned
\* only when the Four Laws block.
C29_VetoIsCerberus ==
    \A t \in Threads :
        Returned(t)
        => LET e == decision_log[Len(decision_log)]
           IN  /\ Len(votes[t]) = 3
                  => /\ ~ctx[t].is_abusive
                     /\ ~(ctx[t].high_risk /\ ~ctx[t].fully_clarified)
                     /\ ~IsOverrideBlock(votes[t][1])
                     /\ ~IsOverrideBlock(votes[t][3])
               /\ e.outcome = "override_veto"
                  => /\ IsOverrideBlock(votes[t][2])
                     /\ \/ ctx[t].sensitive_data /\ ~ctx[t].proper_safeguards
                        \/ ctx[t].irreversible /\ ~ctx[t].user_consent
                     /\ decision[t].level = "HIGH"
                     /\ decision[t].reason = votes[t][2].reason
                     /\ decision[t].reason \in
                            {"CERBERUS: Sensitive data handling requires proper security safeguards",
                             "CERBERUS: Irreversible action requires explicit user consent"}
               /\ decision[t].level = "CRITICAL"
                  => /\ ~four_laws[t].allowed
                     /\ votes[t] = <<>>
                     /\ e.outcome = "four_laws_block"

\* An override veto was returned on a context that matches both override
\* rules of Cerberus left to the council.
C29_Witness ==
    /\ Returned(Main)
    /\ decision_log[Len(decision_log)].outcome = "override_veto"
    /\ ctx[Main].sensitive_data /\ ~ctx[Main].proper_safeguards
    /\ ctx[Main].irreversible /\ ~ctx[Main].user_consent

\* C30: when a call denies a context, the call on a context one step
\* riskier denies too (and so, step by step, on every riskier context).
C30_DenialMonotone ==
    (Len(decision_log) = 2 /\ ~decision_log[1].decision.allowed)
    => ~decision_log[2].decision.allowed

\* A soft block became an override denial when a clearance was withdrawn.
C30_Witness ==
    /\ Len(decision_log) = 2
    /\ decision_log[1].outcome = "soft_block"
    /\ decision_log[1].context.user_consent
    /\ ~decision_log[2].context.user_consent
    /\ decision_log[2].decision.overrides

=============================================================================
